---- MODULE Spec2Model ----
(***************************************************************************)
(* Model of the colour-harmony scorer: the POST handler of                 *)
(* src/app/api/score/route.ts with its colour helpers, and the upload page *)
(* (src/unnamed/part_000) that calls it.                                   *)
(*                                                                         *)
(* JavaScript numbers are modelled as exact rationals <<n, d>> in lowest   *)
(* terms with d > 0; null is the string "null" or the empty tuple.           *)
(***************************************************************************)
EXTENDS Integers, Sequences, FiniteSets, TLC

VARIABLES
  \* ---- POST handler (route.ts) ----
  pc,            \* position of the handler
  req,           \* the incoming request
  file,          \* formData.get('file')
  data,          \* raw sample buffer from sharp
  info,          \* sharp's info object: width, height, channels
  pixels,        \* pixels array
  k,             \* number of clusters asked of kmeans
  dominantRgbs,  \* result.centroids
  response,      \* the NextResponse returned
  attempted,     \* history: the steps the handler has entered
  thrown,        \* history: the call that threw, if any
  \* ---- pair enumeration loop (route.ts 77-84), step by step ----
  loop,
  \* ---- a helper function applied to drawn arguments ----
  fnIn, fnOut,
  \* ---- upload page (part_000) ----
  pageFile, previewUrl, pageResult, isLoading, pageError, inflight

postVars == <<pc, req, file, data, info, pixels, k, dominantRgbs, response, attempted, thrown>>
fnVars   == <<fnIn, fnOut>>
pageVars == <<pageFile, previewUrl, pageResult, isLoading, pageError, inflight>>
vars     == <<postVars, loop, fnVars, pageVars>>

(***************************************************************************)
(* Numbers                                                                 *)
(***************************************************************************)
Abs(x) == IF x < 0 THEN -x ELSE x

RECURSIVE GCD(_, _)
GCD(a, b) == IF b = 0 THEN a ELSE GCD(b, a % b)

\* the number n/d (d # 0), in lowest terms with a positive denominator
Rat(n, d) ==
  LET g == GCD(Abs(n), Abs(d))
      s == IF d < 0 THEN -1 ELSE 1
  IN  <<(s * n) \div g, (s * d) \div g>>

Num(n) == <<n, 1>>

RAdd(x, y) == Rat(x[1] * y[2] + y[1] * x[2], x[2] * y[2])
RSub(x, y) == Rat(x[1] * y[2] - y[1] * x[2], x[2] * y[2])
RMul(x, y) == Rat(x[1] * y[1], x[2] * y[2])
RDiv(x, y) == Rat(x[1] * y[2], x[2] * y[1])
RLt(x, y)  == x[1] * y[2] < y[1] * x[2]
RLe(x, y)  == x[1] * y[2] <= y[1] * x[2]
RAbs(x)    == <<Abs(x[1]), x[2]>>
RMin(x, y) == IF RLe(x, y) THEN x ELSE y
RMax(x, y) == IF RLe(y, x) THEN x ELSE y

\* Math.round: the nearest integer, halves rounded up
MathRound(x) == Num((2 * x[1] + x[2]) \div (2 * x[2]))

\* JavaScript's undefined, where a byte was expected
Undefined == -1

(***************************************************************************)
(* Colour helpers                                                          *)
(***************************************************************************)

\* a mutant of rgbToHsv: the red-is-max case without its "+ 6" wrap
rgbToHsvNoWrap(r0, g0, b0) ==
  LET r == RDiv(r0, Num(255))
      g == RDiv(g0, Num(255))
      b == RDiv(b0, Num(255))
      max == RMax(r, RMax(g, b))
      min == RMin(r, RMin(g, b))
      v == max
      d == RSub(max, min)
      s == IF max = Num(0) THEN Num(0) ELSE RDiv(d, max)
      h == IF max # min
             THEN RDiv(IF max = r THEN RDiv(RSub(g, b), d)
                       ELSE IF max = g THEN RAdd(RDiv(RSub(b, r), d), Num(2))
                       ELSE RAdd(RDiv(RSub(r, g), d), Num(4)),
                       Num(6))
             ELSE Num(0)
  IN  <<RMul(h, Num(360)), RMul(s, Num(100)), RMul(v, Num(100))>>

rgbToHsv(r0, g0, b0) ==
  LET r == RDiv(r0, Num(255))
      g == RDiv(g0, Num(255))
      b == RDiv(b0, Num(255))
      max == RMax(r, RMax(g, b))
      min == RMin(r, RMin(g, b))
      v == max
      d == RSub(max, min)
      s == IF max = Num(0) THEN Num(0) ELSE RDiv(d, max)
      h == IF max # min
             THEN RDiv(IF max = r
                         THEN RAdd(RDiv(RSub(g, b), d), IF RLt(g, b) THEN Num(6) ELSE Num(0))
                       ELSE IF max = g THEN RAdd(RDiv(RSub(b, r), d), Num(2))
                       ELSE RAdd(RDiv(RSub(r, g), d), Num(4)),
                       Num(6))
             ELSE Num(0)
  IN  <<RMul(h, Num(360)), RMul(s, Num(100)), RMul(v, Num(100))>>

\* a mutant of calculateHueScore: the analogous band tested with < instead of <=
calculateHueScoreStrict(h1, h2) ==
  LET diff == RMin(RAbs(RSub(h1, h2)), RSub(Num(360), RAbs(RSub(h1, h2))))
  IN  IF RLt(diff, Num(30)) THEN Num(100)
      ELSE IF RLe(Num(150), diff) /\ RLe(diff, Num(210)) THEN Num(90)
      ELSE RMax(Num(0), RSub(Num(60), diff))

calculateHueScore(h1, h2) ==
  LET diff == RMin(RAbs(RSub(h1, h2)), RSub(Num(360), RAbs(RSub(h1, h2))))
  IN  IF RLe(diff, Num(30)) THEN Num(100)
      ELSE IF RLe(Num(150), diff) /\ RLe(diff, Num(210)) THEN Num(90)
      ELSE RMax(Num(0), RSub(Num(60), diff))

\* a mutant of calculateValueScore: the difference without Math.abs
calculateValueScoreSigned(v1, v2) ==
  RMul(RDiv(RSub(v1, v2), Num(100)), Num(100))

calculateValueScore(v1, v2) ==
  RMul(RDiv(RAbs(RSub(v1, v2)), Num(100)), Num(100))

\* a mutant of calculateSaturationScore: the difference itself, not 100 minus it
calculateSaturationScoreRaw(s1, s2) ==
  RMul(RDiv(RAbs(RSub(s1, s2)), Num(100)), Num(100))

calculateSaturationScore(s1, s2) ==
  RSub(Num(100), RMul(RDiv(RAbs(RSub(s1, s2)), Num(100)), Num(100)))

(***************************************************************************)
(* POST handler: requests, decoded images, centroids                       *)
(***************************************************************************)
K == 3

\* the requests a client can send: a body formData() rejects, or a form whose
\* 'file' entry is absent, an empty string, a text field, or a File holding
\* an image or bytes sharp cannot decode
Requests ==
  {[form |-> "unparseable", entry |-> "absent", content |-> "none"]} \cup
  {[form |-> "parsed", entry |-> e, content |-> "none"] : e \in {"absent", "emptyString", "text"}} \cup
  {[form |-> "parsed", entry |-> "File", content |-> c] : c \in {"image", "notImage"}}

\* formData.get('file')
FormGet(r) ==
  CASE r.entry = "absent"      -> "null"
    [] r.entry = "emptyString" -> ""
    [] r.entry = "text"        -> "text"
    [] r.entry = "File"        -> "File"

\* a mutant of MissingFile: file === null instead of !file
MissingFileNullOnly(f) == f = "null"

\* !file
MissingFile(f) == f \in {"null", ""}

NoResponse == [status |-> 0, body |-> [pending |-> TRUE]]

MissingInputResponse == [status |-> 400, body |-> [error |-> "File is required."]]

\* a mutant of CatchResponse: the catch block answers like a success
CatchResponseOk == [status |-> 200, body |-> [error |-> "Failed to process image."]]

CatchResponse == [status |-> 500, body |-> [error |-> "Failed to process image."]]

ByteSamples == {0, 255}

\* what sharp(...).resize(w, h).raw().toBuffer() resolves to: 1 to 4 channels
\* per pixel, width * height * channels samples
DecodedImages(maxW, maxH) ==
  UNION { { [info |-> [width |-> w, height |-> h, channels |-> c], data |-> d]
              : d \in [1..(w * h * c) -> ByteSamples] }
          : <<w, h, c>> \in (1..maxW) \X (1..maxH) \X (1..4) }

\* data[i] of a Buffer: undefined past its end
At(buf, i) == IF i < Len(buf) THEN buf[i + 1] ELSE Undefined

RECURSIVE PixelLoop(_, _, _, _)
PixelLoop(buf, channels, i, acc) ==
  IF i < Len(buf)
    THEN PixelLoop(buf, channels, i + channels,
                   Append(acc, <<At(buf, i), At(buf, i + 1), At(buf, i + 2)>>))
    ELSE acc

ExtractedPixels(buf, channels) == PixelLoop(buf, channels, 0, <<>>)

\* centroid channels are means of samples, so they may be fractional: the
\* three-level channels 0, 127.5, 255 and the four-level channels in thirds
Channel3 == <<Num(0), Rat(255, 2), Num(255)>>
Channel4 == <<Num(85), Num(170), Num(255), Num(0)>>

\* the i-th colour (from 0): first the 27 three-level colours, then the four-level ones
PaletteColor(i) ==
  IF i < 27
    THEN <<Channel3[(i % 3) + 1], Channel3[((i \div 3) % 3) + 1], Channel3[((i \div 9) % 3) + 1]>>
    ELSE <<Channel4[((i - 27) % 4) + 1], Channel4[(((i - 27) \div 4) % 4) + 1],
           Channel4[(((i - 27) \div 16) % 4) + 1]>>

Palette(size) == {PaletteColor(i) : i \in 0..(size - 1)}

\* result.centroids of kmeans(pixels, n, ...): n centroids
CentroidLists(colors, n) == [1..n -> colors]

(***************************************************************************)
(* Pair enumeration, lines 77-84, as a step function                       *)
(***************************************************************************)
colorIndices(n) == [x \in 1..n |-> x - 1]

LoopStart == [i |-> 0, j |-> 0, inner |-> FALSE, colorPairs |-> <<>>]

LoopDone(st, n) == ~st.inner /\ ~(st.i < Len(colorIndices(n)))

\* a mutant of LoopStep: the inner loop starts at j = i
LoopStepSelfPair(st, n) ==
  IF ~st.inner
    THEN [st EXCEPT !.j = st.i, !.inner = TRUE]
  ELSE IF st.j < Len(colorIndices(n))
    THEN [st EXCEPT !.colorPairs = Append(@, <<colorIndices(n)[st.i + 1], colorIndices(n)[st.j + 1]>>),
                    !.j = st.j + 1]
  ELSE [st EXCEPT !.i = st.i + 1, !.j = 0, !.inner = FALSE]

\* a mutant of LoopStep: the inner loop starts at j = 0
LoopStepAllOrdered(st, n) ==
  IF ~st.inner
    THEN [st EXCEPT !.j = 0, !.inner = TRUE]
  ELSE IF st.j < Len(colorIndices(n))
    THEN [st EXCEPT !.colorPairs = Append(@, <<colorIndices(n)[st.i + 1], colorIndices(n)[st.j + 1]>>),
                    !.j = st.j + 1]
  ELSE [st EXCEPT !.i = st.i + 1, !.j = 0, !.inner = FALSE]

\* one step of the two nested for loops (taken only while ~LoopDone)
LoopStep(st, n) ==
  IF ~st.inner
    THEN [st EXCEPT !.j = st.i + 1, !.inner = TRUE]
  ELSE IF st.j < Len(colorIndices(n))
    THEN [st EXCEPT !.colorPairs = Append(@, <<colorIndices(n)[st.i + 1], colorIndices(n)[st.j + 1]>>),
                    !.j = st.j + 1]
  ELSE [st EXCEPT !.i = st.i + 1, !.j = 0, !.inner = FALSE]

RECURSIVE RunLoop(_, _)
RunLoop(st, n) == IF LoopDone(st, n) THEN st.colorPairs ELSE RunLoop(LoopStep(st, n), n)

colorPairsOf(n) == RunLoop(LoopStart, n)

(***************************************************************************)
(* Scoring, lines 73-110                                                   *)
(***************************************************************************)
weights == [hue |-> Rat(5, 10), value |-> Rat(3, 10), saturation |-> Rat(2, 10)]

dominantHsvs(rgbs) == [c \in 1..Len(rgbs) |-> rgbToHsv(rgbs[c][1], rgbs[c][2], rgbs[c][3])]

\* the body of the forEach callback: hsv = <<h, s, v>>
pairScore(hsv1, hsv2) ==
  LET hueScore        == calculateHueScore(hsv1[1], hsv2[1])
      valueScore      == calculateValueScore(hsv1[3], hsv2[3])
      saturationScore == calculateSaturationScore(hsv1[2], hsv2[2])
  IN  RAdd(RAdd(RMul(hueScore, weights.hue), RMul(valueScore, weights.value)),
           RMul(saturationScore, weights.saturation))

RECURSIVE totalScore(_, _)
totalScore(pairs, hsvs) ==
  IF pairs = <<>> THEN Num(0)
  ELSE LET n == Len(pairs)
           p == pairs[n]
       IN  RAdd(totalScore(SubSeq(pairs, 1, n - 1), hsvs),
                pairScore(hsvs[p[1] + 1], hsvs[p[2] + 1]))

\* dominantRgbs.map(c => c.map(Math.round))
RoundedColors(rgbs) == [c \in 1..Len(rgbs) |-> [ch \in 1..3 |-> MathRound(rgbs[c][ch])]]

finalScore(pairs, hsvs) == RDiv(totalScore(pairs, hsvs), Num(Len(pairs)))

\* lines 73-110: the response for centroids rgbs and n clusters
ScoreResponse(rgbs, n) ==
  LET hsvs   == dominantHsvs(rgbs)
      pairs  == colorPairsOf(n)
      colors == RoundedColors(rgbs)
  IN  IF Len(pairs) = 0
        THEN [status |-> 200, body |-> [score |-> Num(100), colors |-> colors]]
        ELSE [status |-> 200,
              body |-> [score  |-> RDiv(MathRound(RMul(finalScore(pairs, hsvs), Num(100))), Num(100)),
                        colors |-> colors]]

(***************************************************************************)
(* POST handler: the steps of one request                                  *)
(***************************************************************************)
loopIdle == [i |-> 0, j |-> 0, inner |-> FALSE, colorPairs |-> <<>>, n |-> 0, at |-> "idle"]
fnIdle   == fnIn = [fn |-> "none"] /\ fnOut = <<>>
pageIdle ==
  /\ pageFile = "null" /\ previewUrl = <<>> /\ pageResult = <<>>
  /\ isLoading = FALSE /\ pageError = "null" /\ inflight = <<>>
postIdle ==
  /\ pc = "idle" /\ req = [form |-> "none"] /\ file = "unset" /\ data = <<>>
  /\ info = [width |-> 0, height |-> 0, channels |-> 0] /\ pixels = <<>> /\ k = K
  /\ dominantRgbs = <<>> /\ response = NoResponse /\ attempted = {} /\ thrown = "none"

\* a rejected await or a throw inside the try block: the catch block answers
Catch(call) ==
  /\ thrown' = call
  /\ response' = CatchResponse
  /\ pc' = "done"

\* lines 49-53: await request.formData(), formData.get('file'), the !file test
ParseForm ==
  /\ pc = "start"
  /\ attempted' = attempted \cup {"formData"}
  /\ \/ /\ req.form = "unparseable"
        /\ Catch("formData")
        /\ UNCHANGED file
     \/ /\ req.form = "parsed"
        /\ file' = FormGet(req)
        /\ IF MissingFile(FormGet(req))
             THEN response' = MissingInputResponse /\ pc' = "done"
             ELSE response' = response /\ pc' = "haveFile"
        /\ UNCHANGED thrown
  /\ UNCHANGED <<req, data, info, pixels, k, dominantRgbs, loop, fnVars, pageVars>>

\* line 56: await file.arrayBuffer(); a string entry has no arrayBuffer method
ReadFile ==
  /\ pc = "haveFile"
  /\ attempted' = attempted \cup {"arrayBuffer"}
  /\ \/ /\ file # "File"
        /\ Catch("arrayBuffer")
     \/ /\ file = "File"
        /\ pc' = "haveBuffer"
        /\ UNCHANGED <<response, thrown>>
  /\ UNCHANGED <<req, file, data, info, pixels, k, dominantRgbs, loop, fnVars, pageVars>>

\* lines 57-60: await sharp(imageBuffer).resize(..).raw().toBuffer(..)
Decode ==
  /\ pc = "haveBuffer"
  /\ attempted' = attempted \cup {"sharp"}
  /\ \/ /\ req.content = "notImage"
        /\ Catch("sharp")
        /\ UNCHANGED <<data, info>>
     \/ /\ req.content = "image"
        /\ \E img \in DecodedImages(1, 1) : data' = img.data /\ info' = img.info
        /\ pc' = "decoded"
        /\ UNCHANGED <<response, thrown>>
  /\ UNCHANGED <<req, file, pixels, k, dominantRgbs, loop, fnVars, pageVars>>

\* lines 62-65: the pixel extraction loop
ExtractPixels ==
  /\ pc = "decoded"
  /\ attempted' = attempted \cup {"pixels"}
  /\ pixels' = ExtractedPixels(data, info.channels)
  /\ pc' = "extracted"
  /\ UNCHANGED <<req, file, data, info, k, dominantRgbs, response, thrown, loop, fnVars, pageVars>>

MaxHandlerColors == 4

\* lines 68-70: kmeans(pixels, k, {seed: 42}) returns k centroids or throws
Cluster ==
  /\ pc = "extracted"
  /\ attempted' = attempted \cup {"kmeans"}
  /\ \/ /\ Catch("kmeans")
        /\ UNCHANGED dominantRgbs
     \/ /\ \E cs \in CentroidLists(Palette(MaxHandlerColors), k) : dominantRgbs' = cs
        /\ pc' = "clustered"
        /\ UNCHANGED <<response, thrown>>
  /\ UNCHANGED <<req, file, data, info, pixels, k, loop, fnVars, pageVars>>

\* lines 73-110: HSV conversion, pair enumeration, scoring, the response
Score ==
  /\ pc = "clustered"
  /\ attempted' = attempted \cup {"score"}
  /\ response' = ScoreResponse(dominantRgbs, k)
  /\ pc' = "done"
  /\ UNCHANGED <<req, file, data, info, pixels, k, dominantRgbs, thrown, loop, fnVars, pageVars>>

Init ==
  /\ pc = "start" /\ req \in Requests /\ file = "unset" /\ data = <<>>
  /\ info = [width |-> 0, height |-> 0, channels |-> 0] /\ pixels = <<>> /\ k = K
  /\ dominantRgbs = <<>> /\ response = NoResponse /\ attempted = {} /\ thrown = "none"
  /\ loop = loopIdle /\ fnIdle /\ pageIdle

Next == ParseForm \/ ReadFile \/ Decode \/ ExtractPixels \/ Cluster \/ Score

Spec == Init /\ [][Next]_vars

(***************************************************************************)
(* The scoring step on its own: every list of at most K centroids          *)
(***************************************************************************)
\* The source fixes k = 3 (line 68); lines 77-88 are written for any k, and
\* here k ranges over 0..K with k centroids, the counts below 2 included.
MaxColors == 27

InitScore ==
  /\ pc = "clustered" /\ req = [form |-> "parsed", entry |-> "File", content |-> "image"]
  /\ file = "File" /\ data = <<0, 0, 0>>
  /\ info = [width |-> 1, height |-> 1, channels |-> 3] /\ pixels = <<<<0, 0, 0>>>>
  /\ k \in 0..K
  /\ dominantRgbs \in CentroidLists(Palette(MaxColors), k)
  /\ response = NoResponse
  /\ attempted = {"formData", "arrayBuffer", "sharp", "pixels", "kmeans"} /\ thrown = "none"
  /\ loop = loopIdle /\ fnIdle /\ pageIdle

SpecScore == InitScore /\ [][Score]_vars

(***************************************************************************)
(* Properties of the handler                                               *)
(***************************************************************************)
Succeeded == pc = "done" /\ response.status = 200 /\ thrown = "none"

InRange(x, lo, hi) == RLe(Num(lo), x) /\ RLe(x, Num(hi))

\* C1: for every list of K >= 2 centroids with channels in [0,255], the score the
\* handler returns (the rounded mean over all pairs of 0.5*hue + 0.3*value +
\* 0.2*saturation) lies in [0,100], and so does the mean before rounding.
C1_ScoreInRange ==
  (Succeeded /\ k >= 2 /\ \A c \in 1..k : \A ch \in 1..3 : InRange(dominantRgbs[c][ch], 0, 255))
    => /\ InRange(response.body.score, 0, 100)
       /\ InRange(finalScore(colorPairsOf(k), dominantHsvs(dominantRgbs)), 0, 100)

\* C1 witness: three distinct centroids scored, with a score strictly inside (0,100)
C1_Witness ==
  /\ Succeeded /\ k = 3
  /\ dominantRgbs[1] # dominantRgbs[2] /\ dominantRgbs[2] # dominantRgbs[3]
  /\ RLt(Num(0), response.body.score) /\ RLt(response.body.score, Num(100))

\* C6: with 0 or 1 centroids the pair list is empty and the returned score is exactly 100.
C6_FewCentroidsScore100 ==
  (Succeeded /\ k < 2)
    => /\ colorPairsOf(k) = <<>>
       /\ response.body.score = Num(100)
       /\ Len(response.body.colors) = k

\* C6 witness: a request with a single centroid has been answered
C6_Witness == Succeeded /\ k = 1 /\ Len(dominantRgbs) = 1 /\ response.body.score = Num(100)

AllSame(rgbs) == \A c \in 1..Len(rgbs) : rgbs[c] = rgbs[1]

IsInteger(x) == x[2] = 1

\* C7: when all K >= 2 centroids are the same colour, every pair has hue score 100,
\* value score 0 and saturation score 100, every pair score is 70 and the final score
\* is 70; the returned colours are K copies of the (rounded) colour, which is [r,g,b]
\* itself for the integer channels of a solid image.
C7_SolidColourScores70 ==
  (Succeeded /\ k >= 2 /\ AllSame(dominantRgbs))
    => LET c   == dominantRgbs[1]
           hsv == dominantHsvs(dominantRgbs)
       IN  /\ \A p \in 1..Len(colorPairsOf(k)) :
                LET a == hsv[colorPairsOf(k)[p][1] + 1]
                    b == hsv[colorPairsOf(k)[p][2] + 1]
                IN  /\ calculateHueScore(a[1], b[1]) = Num(100)
                    /\ calculateValueScore(a[3], b[3]) = Num(0)
                    /\ calculateSaturationScore(a[2], b[2]) = Num(100)
                    /\ pairScore(a, b) = Num(70)
           /\ response.body.score = Num(70)
           /\ response.body.colors = [i \in 1..k |-> [ch \in 1..3 |-> MathRound(c[ch])]]
           /\ (\A ch \in 1..3 : IsInteger(c[ch])) => response.body.colors = [i \in 1..k |-> c]

\* C7 witness: three copies of one chromatic integer colour have been scored
C7_Witness ==
  /\ Succeeded /\ k = 3 /\ AllSame(dominantRgbs)
  /\ dominantRgbs[1] = <<Num(255), Num(0), Num(255)>>
  /\ response.body.score = Num(70)

Processing == {"arrayBuffer", "sharp", "pixels", "kmeans", "score"}

\* C4 as stated: a malformed or empty upload yields the 400 'File is required.'
\* outcome, and nothing is decoded, clustered or scored.
C4_Original ==
  (pc = "done" /\ (req.form = "unparseable" \/ req.entry \in {"absent", "emptyString"}))
    => /\ response = MissingInputResponse
       /\ attempted \cap Processing = {}

\* C4 amended: a request whose form data parses but carries no 'file' entry (absent or
\* empty) yields the 400 'File is required.' outcome; a body that formData() rejects
\* yields the generic 500 outcome; in both cases nothing is decoded, clustered or scored.
C4_MissingInput ==
  /\ (pc = "done" /\ req.form = "parsed" /\ req.entry \in {"absent", "emptyString"})
       => /\ response = MissingInputResponse
          /\ thrown = "none"
          /\ attempted \cap Processing = {}
  /\ (pc = "done" /\ req.form = "unparseable")
       => /\ response = CatchResponse
          /\ attempted \cap Processing = {}

\* C4 witness: a form with an empty 'file' value has been answered with 400
C4_Witness ==
  pc = "done" /\ req.form = "parsed" /\ req.entry = "emptyString" /\ response.status = 400

SuccessBody == response.status = 200 /\ DOMAIN response.body = {"score", "colors"}
ErrorBody   == response.status \in {400, 500} /\ DOMAIN response.body = {"error"}

\* C5: a run ends in exactly one outcome, a success body with score and colors or an
\* error body; a failure in any step gives the generic 500 'Failed to process image.'
\* body, which carries neither score nor colors; nothing is answered before the end.
C5_SingleOutcome ==
  /\ pc # "done" => (response = NoResponse /\ thrown = "none")
  /\ pc = "done" => (SuccessBody \/ ErrorBody) /\ ~(SuccessBody /\ ErrorBody)
  /\ (pc = "done" /\ thrown = "none") => (SuccessBody \/ response = MissingInputResponse)
  /\ thrown # "none"
       => /\ pc = "done"
          /\ response.status = 500
          /\ response.body = [error |-> "Failed to process image."]

\* C5 witness: clustering threw after decoding and extraction, and the run ended in 500
C5_Witness ==
  /\ pc = "done" /\ thrown = "kmeans" /\ response.status = 500
  /\ {"sharp", "pixels"} \subseteq attempted

(***************************************************************************)
(* The pixel extraction loop on its own: every decoded buffer              *)
(***************************************************************************)
MaxWidth == 2

InitPixels ==
  /\ pc = "decoded" /\ req = [form |-> "parsed", entry |-> "File", content |-> "image"]
  /\ file = "File"
  /\ \E img \in DecodedImages(MaxWidth, 1) : data = img.data /\ info = img.info
  /\ pixels = <<>> /\ k = K /\ dominantRgbs = <<>> /\ response = NoResponse
  /\ attempted = {"formData", "arrayBuffer", "sharp"} /\ thrown = "none"
  /\ loop = loopIdle /\ fnIdle /\ pageIdle

SpecPixels == InitPixels /\ [][ExtractPixels]_vars

\* C9: for every decoded buffer of width*height*channels bytes and every channel
\* count 1..4, extraction yields width*height samples, each three defined bytes read
\* at indices inside the buffer and inside that sample's own pixel.
C9_PixelsWellFormed ==
  pc = "extracted"
    => /\ Len(pixels) = info.width * info.height
       /\ \A p \in 1..Len(pixels) : \A c \in 1..3 :
            /\ pixels[p][c] # Undefined
            /\ pixels[p][c] \in 0..255
            /\ (p - 1) * info.channels + (c - 1) < Len(data)
            /\ (p - 1) * info.channels + (c - 1) < p * info.channels

(***************************************************************************)
(* The pair enumeration loop on its own, one loop step at a time           *)
(***************************************************************************)
MaxPairsK == 8

InitPairs ==
  /\ \E n \in 0..MaxPairsK :
       loop = [i |-> 0, j |-> 0, inner |-> FALSE, colorPairs |-> <<>>, n |-> n, at |-> "running"]
  /\ postIdle /\ fnIdle /\ pageIdle

PairLoopStep ==
  /\ loop.at = "running"
  /\ ~LoopDone(loop, loop.n)
  /\ loop' = LoopStep(loop, loop.n)
  /\ UNCHANGED <<postVars, fnVars, pageVars>>

PairLoopExit ==
  /\ loop.at = "running"
  /\ LoopDone(loop, loop.n)
  /\ loop' = [loop EXCEPT !.at = "done"]
  /\ UNCHANGED <<postVars, fnVars, pageVars>>

NextPairs == PairLoopStep \/ PairLoopExit

SpecPairs == InitPairs /\ [][NextPairs]_vars

PairSet(ps) == {ps[x] : x \in 1..Len(ps)}

\* C8: for every K >= 0 the loop produces exactly K*(K-1)/2 pairs <<i, j>> with
\* 0 <= i < j < K: no self-pair, no pair twice in either order, every unordered pair
\* of distinct indices present; and no pair is ever listed twice while it runs.
C8_AllPairsOnce ==
  /\ Cardinality(PairSet(loop.colorPairs)) = Len(loop.colorPairs)
  /\ \A p \in PairSet(loop.colorPairs) : 0 <= p[1] /\ p[1] < p[2] /\ p[2] < loop.n
  /\ loop.at = "done"
       => /\ 2 * Len(loop.colorPairs) = loop.n * (loop.n - 1)
          /\ \A a \in 0..(loop.n - 1) : \A b \in 0..(loop.n - 1) :
               a < b => (<<a, b>> \in PairSet(loop.colorPairs) /\ <<b, a>> \notin PairSet(loop.colorPairs))
          /\ colorPairsOf(loop.n) = loop.colorPairs

\* C8 witness: the loop has finished for four indices with its six pairs
C8_Witness ==
  /\ loop.at = "done" /\ loop.n = 4
  /\ loop.colorPairs = <<<<0, 1>>, <<0, 2>>, <<0, 3>>, <<1, 2>>, <<1, 3>>, <<2, 3>>>>

(***************************************************************************)
(* calculateHueScore applied to drawn hues (in half degrees)               *)
(***************************************************************************)
MaxHueB == 20

InitHue ==
  /\ \E a \in 0..(2 * 360 - 1) : \E b \in 0..MaxHueB :
       fnIn = [fn |-> "calculateHueScore", h1 |-> Rat(a, 2), h2 |-> Rat(b, 2)]
  /\ fnOut = <<>>
  /\ postIdle /\ loop = loopIdle /\ pageIdle

ApplyHueScore ==
  /\ fnIn.fn = "calculateHueScore" /\ fnOut = <<>>
  /\ fnOut' = calculateHueScore(fnIn.h1, fnIn.h2)
  /\ UNCHANGED <<fnIn, postVars, loop, pageVars>>

SpecHue == InitHue /\ [][ApplyHueScore]_vars

\* the circular distance between two hues of [0,360), by cases
HueDistance(h1, h2) ==
  LET hi == RMax(h1, h2)
      lo == RMin(h1, h2)
      direct == RSub(hi, lo)
  IN  IF RLe(direct, Num(180)) THEN direct ELSE RSub(RAdd(lo, Num(360)), hi)

\* C2: calculateHueScore returns 100 when the hue distance is <= 30, 90 when it is in
\* [150,210], and max(0, 60 - distance) otherwise; distance 30 gives 100, 150 gives
\* 90, 31 gives 29 (the distance never exceeds 180).
C2_HueScoreBands ==
  (fnIn.fn = "calculateHueScore" /\ fnOut # <<>>)
    => LET dist == HueDistance(fnIn.h1, fnIn.h2)
       IN  /\ InRange(dist, 0, 180)
           /\ RLe(dist, Num(30)) => fnOut = Num(100)
           /\ (RLe(Num(150), dist) /\ RLe(dist, Num(210))) => fnOut = Num(90)
           /\ (RLt(Num(30), dist) /\ RLt(dist, Num(60))) => fnOut = RSub(Num(60), dist)
           /\ (RLe(Num(60), dist) /\ RLt(dist, Num(150))) => fnOut = Num(0)
           /\ dist = Num(30) => fnOut = Num(100)
           /\ dist = Num(150) => fnOut = Num(90)
           /\ dist = Num(31) => fnOut = Num(29)

\* C2 witness: hues 31 degrees apart across the 0/360 wrap have been scored 29
C2_Witness ==
  /\ fnIn.fn = "calculateHueScore" /\ fnIn.h1 = Num(335) /\ fnIn.h2 = Num(6)
  /\ fnOut = Num(29)

(***************************************************************************)
(* rgbToHsv applied to drawn colours                                       *)
(***************************************************************************)
MaxHsvLevel == 10

\* channel values 0 .. 255 in L equal steps of half units
ChannelSet(L) == {Rat(((2 * 255) \div L) * i, 2) : i \in 0..L}

InitHsv ==
  /\ \E c \in ChannelSet(MaxHsvLevel) \X ChannelSet(MaxHsvLevel) \X ChannelSet(MaxHsvLevel) :
       fnIn = [fn |-> "rgbToHsv", rgb |-> c]
  /\ fnOut = <<>>
  /\ postIdle /\ loop = loopIdle /\ pageIdle

ApplyRgbToHsv ==
  /\ fnIn.fn = "rgbToHsv" /\ fnOut = <<>>
  /\ fnOut' = rgbToHsv(fnIn.rgb[1], fnIn.rgb[2], fnIn.rgb[3])
  /\ UNCHANGED <<fnIn, postVars, loop, pageVars>>

SpecHsv == InitHsv /\ [][ApplyRgbToHsv]_vars

MaxFiles == 7

Files == {<<"file", n>> : n \in 1..MaxFiles}

\* URL.createObjectURL(selectedFile)
ObjectUrl(f) == <<"blob", f[2]>>

\* the ScoreResult the server computes from upload f
ResultFor(f) == <<"ScoreResult", f[2]>>

\* what the await in the try block can throw: a rejected fetch or json() (an Error
\* with a message), or a value that is no Error
Rejections == {[isError |-> TRUE, message |-> "Failed to fetch"], [isError |-> FALSE, message |-> ""]}

\* err instanceof Error ? err.message : (the unknown-error text)
ErrorText(err) == IF err.isError THEN err.message ELSE "unknown error"

\* lines 18-26
handleFileChange ==
  /\ \E selectedFile \in Files :
       /\ pageFile' = selectedFile
       /\ previewUrl' = ObjectUrl(selectedFile)
  /\ pageResult' = <<>>
  /\ pageError' = "null"
  /\ UNCHANGED <<isLoading, inflight, postVars, loop, fnVars>>

\* lines 28-46, up to the await of fetch; the submit button is disabled
\* while there is no file or a request is loading (line 89), so the
\* handler's own !file branch (lines 30-33) is not reachable through the button
handleSubmit ==
  /\ pageFile # "null" /\ ~isLoading
  /\ IF pageFile = "null"
       THEN /\ pageError' = "select an image file"
            /\ UNCHANGED <<pageResult, isLoading, inflight>>
       ELSE /\ isLoading' = TRUE
            /\ pageResult' = <<>>
            /\ pageError' = "null"
            /\ inflight' = <<pageFile>>
  /\ UNCHANGED <<pageFile, previewUrl, postVars, loop, fnVars>>

\* lines 48-58: the awaited fetch settles and the handler resumes
fetchSettles ==
  /\ inflight # <<>>
  /\ \/ /\ pageResult' = ResultFor(inflight[1])
        /\ UNCHANGED pageError
     \/ /\ pageError' = "analysis failed"
        /\ UNCHANGED pageResult
     \/ /\ \E err \in Rejections : pageError' = ErrorText(err)
        /\ UNCHANGED pageResult
  /\ isLoading' = FALSE
  /\ inflight' = <<>>
  /\ UNCHANGED <<pageFile, previewUrl, postVars, loop, fnVars>>

InitPage ==
  /\ pageFile = "null" /\ previewUrl = <<>> /\ pageResult = <<>>
  /\ isLoading = FALSE /\ pageError = "null" /\ inflight = <<>>
  /\ postIdle /\ loop = loopIdle /\ fnIdle

NextPage == handleFileChange \/ handleSubmit \/ fetchSettles

SpecPage == InitPage /\ [][NextPage]_vars

\* C10: under every interleaving of selections, submits and response arrivals, a
\* displayed result was computed for the currently selected file.
C10_ResultMatchesFile ==
  pageResult # <<>> => (pageFile # "null" /\ pageResult = ResultFor(pageFile))

====
